---- MODULE Spec2Model ----
(***************************************************************************)
(* Model of futures_spike_bot.py: two monitor loops ("1m" and "5m") that   *)
(* fan out one run_check task per symbol and per cycle, each task fetching *)
(* the last candle with bounded retry, evaluating it against the dedup map *)
(* of its timeframe and calling send_telegram when the threshold is met.   *)
(*                                                                         *)
(* One action is one stretch of coroutine code between two awaits: asyncio *)
(* runs such a stretch without interleaving.  Prices are integers in       *)
(* hundredths of a price unit and percentages are integers in hundredths   *)
(* of a percent, so 3.5 % is 350.                                          *)
(*                                                                         *)
(* A request that fails, for whatever reason (transport error, non-2xx     *)
(* status, the 20 s timeout, which also covers the wait for a connection   *)
(* of the TCPConnector), is the step GetFails.  The text of the messages   *)
(* and of the log lines is not part of the state.                          *)
(*                                                                         *)
(* main is modelled from the directory request to the gather of the two    *)
(* monitors (SpecMain); the other specifications start where main awaits   *)
(* the monitors.  Time is in whole seconds.                                *)
(***************************************************************************)
EXTENDS Integers, FiniteSets, Sequences, TLC

VARIABLES
    main,           \* position of main, or the exception that has left it
    dir_calls,      \* history: GET requests made for the exchange directory
    CONCURRENCY,    \* int(os.getenv("CONCURRENCY", "15")), read once at import
    symbols,        \* main: the list returned by get_usdt_perpetual_symbols
    creds,          \* TELEGRAM_BOT_TOKEN and TELEGRAM_CHAT_ID are both set
    loop,           \* per timeframe: position of monitor_1m / monitor_5m
    cycle,          \* per timeframe: number of cycles started so far
    tasks,          \* per timeframe: the run_check tasks of the `tasks` list
    sem,            \* per timeframe: free permits of that monitor's Semaphore
    last_alerted,   \* per timeframe: the dict last_alerted_1m / last_alerted_5m
    calls,          \* history: send_telegram invocations per (tf, symbol, open_time)
    outcome,        \* history: how the last send_telegram per (tf, symbol, open_time) ended
    elapsed,        \* per timeframe: time.time() - start at the end of the fan-in
    nap             \* per timeframe: the argument of the end-of-cycle sleep

vars == <<main, dir_calls, CONCURRENCY, symbols, creds, loop, cycle, tasks, sem,
          last_alerted, calls, outcome, elapsed, nap>>

----------------------------------------------------------------------------
(* Bounds of the exploration: cycles a monitor may start, and the largest  *)
(* open_time of the exchange feed, for each specification.                 *)

MaxCycles == 1
MaxCyclesLoop == 2
MaxCyclesIso == 2
MaxCyclesDedup == 3
MaxOpenTimeDedup == 2
MaxCyclesMain == 2

(* Program constants *)

Retries == 2
ONE_MIN_THRESHOLD == 350
FIVE_MIN_THRESHOLD == 500
ONE_MIN_INTERVAL == 30
FIVE_MIN_INTERVAL == 240

Timeframes == {"1m", "5m"}
Universe == {"BTCUSDT", "ETHUSDT"}
UniverseLoop == {"BTCUSDT", "ETHUSDT", "XRPUSDT"}
UniverseDedup == {"BTCUSDT"}

Threshold(tf) == IF tf = "1m" THEN ONE_MIN_THRESHOLD ELSE FIVE_MIN_THRESHOLD

Interval(tf) == IF tf = "1m" THEN ONE_MIN_INTERVAL ELSE FIVE_MIN_INTERVAL

\* Seconds a cycle's fan-out and fan-in may have taken: none, less than the
\* interval by two and by one, the interval, and more than the interval.
Elapsed(tf) ==
    {0, Interval(tf) - 2, Interval(tf) - 1, Interval(tf), Interval(tf) + 1}

----------------------------------------------------------------------------
(* Candles and exchange responses *)

NoCandle == [open_time |-> 0, open |-> 0, close |-> 0]

Bars(c) == [kind |-> "bars", c |-> c]
Empty == [kind |-> "empty", c |-> NoCandle]
Malformed == [kind |-> "malformed", c |-> NoCandle]
NoData == [kind |-> "none", c |-> NoCandle]

Candles(ots, opens, closes) ==
    { [open_time |-> ot, open |-> o, close |-> cl] :
        ot \in ots, o \in opens, cl \in closes }

Responses(cs) == { Bars(c) : c \in cs } \cup {Empty, Malformed}

\* Feed of Spec: one candle, 5 % up, or no bars.
FeedBoth == {Bars(c) : c \in Candles({1}, {10000}, {10500})} \cup {Empty}

\* Feed of SpecLoop: a flat candle and one 5 % up.
FeedLoop == Responses(Candles({1}, {10000}, {10000, 10500}))

\* Feed of SpecDedup, from open 100.00: 3.49 %, 3.50 %, 4.99 %, 5.00 % up,
\* 3.50 % and 5.00 % down, and a candle whose open is 0.
FeedDedup ==
    Responses(
        Candles(1..MaxOpenTimeDedup, {10000},
                {10349, 10350, 10499, 10500, 9650, 9500})
            \cup Candles(1..MaxOpenTimeDedup, {0}, {10500}))

\* Feed of SpecZero: candles whose open is 0, flat, down and up, and one
\* candle 5 % up from open 100.00.
FeedZero ==
    Responses(
        Candles(1..MaxOpenTimeDedup, {0}, {0, 9500, 10500})
            \cup Candles(1..MaxOpenTimeDedup, {10000}, {10500}))

----------------------------------------------------------------------------
(* Pure helpers *)

Abs(x) == IF x < 0 THEN -x ELSE x

Max(a, b) == IF a >= b THEN a ELSE b

\* Mutant: the remainder of the interval, not clamped.
SleepTime_unclamped(tf, e) == Interval(tf) - e

\* max(1, ONE_MIN_INTERVAL - (time.time() - start))
SleepTime(tf, e) == Max(1, Interval(tf) - e)

\* Mutant: an open of 0 counts as a move of 100 %.
percent_change_full(o, c) == IF o = 0 THEN 10000 ELSE ((c - o) * 10000) \div o

percent_change(o, c) == IF o = 0 THEN 0 ELSE ((c - o) * 10000) \div o

Get(d, k) == IF k \in DOMAIN d THEN <<d[k]>> ELSE <<>>

Put(d, k, v) == [x \in DOMAIN d \cup {k} |-> IF x = k THEN v ELSE d[x]]

\* The history of a key is kept where the specification follows it.
Track(k, v) == IF k \in DOMAIN outcome THEN [outcome EXCEPT ![k] = v] ELSE outcome

Other(tf) == IF tf = "1m" THEN "5m" ELSE "1m"

\* Mutant: the lookup consults the dict of the other timeframe.
AlreadyAlerted_otherdict(tf, s, ot) == Get(last_alerted[Other(tf)], s) = <<ot>>

AlreadyAlerted(tf, s, ot) == Get(last_alerted[tf], s) = <<ot>>

\* Mutant: strict comparison.
Breaches_strict(tf, ch) == Abs(ch) > Threshold(tf)

Breaches(tf, ch) == Abs(ch) >= Threshold(tf)

\* Mutant: one attempt too many before giving up.
ExhaustedRetries_late(i) == i = Retries + 1

ExhaustedRetries(i) == i = Retries

\* Mutant: the permit is taken whether or not one is free.
CanAcquire_always(tf) == TRUE

CanAcquire(tf) == sem[tf] > 0

HoldsPermit(t) == t.pc \in {"get", "retry", "resume", "post", "pace"}

\* Mutant: gather returns as soon as one task has finished.
AllDone_first(tf) == \E t \in tasks[tf] : t.pc = "done"

AllDone(tf) == \A t \in tasks[tf] : t.pc = "done"

NewTask(s, k) ==
    [sym |-> s, cyc |-> k, pc |-> "acquire", i |-> 0, n |-> 0,
     resp |-> NoData, res |-> "none"]

\* Mutant: a check that failed ends its task at once, the permit still taken.
Returned_leak(t, r) ==
    IF r \in {"absent", "error"}
      THEN [t EXCEPT !.pc = "done", !.i = 0, !.n = 0, !.resp = NoData, !.res = r]
      ELSE [t EXCEPT !.pc = "pace", !.i = 0, !.n = 0, !.resp = NoData, !.res = r]

\* The check has returned with result r: its locals are gone and run_check
\* is in its pacing sleep, still inside `async with sem`.
Returned(t, r) ==
    [t EXCEPT !.pc = "pace", !.i = 0, !.n = 0, !.resp = NoData, !.res = r]

\* run_check has left `async with sem` and the task is finished.
Finished(t) == [t EXCEPT !.pc = "done", !.res = "none"]

Upd(tf, t, u) == tasks' = [tasks EXCEPT ![tf] = (@ \ {t}) \cup {u}]

----------------------------------------------------------------------------
(* monitor_1m / monitor_5m *)

StartCycle(tf, maxc) ==
    /\ main = "monitors"
    /\ loop[tf] = "start"
    /\ cycle[tf] < maxc
    /\ cycle' = [cycle EXCEPT ![tf] = @ + 1]
    /\ tasks' = [tasks EXCEPT ![tf] =
                    { t \in @ : t.pc # "done" }
                        \cup { NewTask(s, cycle[tf] + 1) : s \in symbols }]
    /\ loop' = [loop EXCEPT ![tf] = "gather"]
    /\ UNCHANGED <<main, dir_calls, elapsed, nap, CONCURRENCY, symbols, creds, sem, last_alerted, calls, outcome>>

\* gather has returned: the elapsed time is read and the sleep is started.
FinishCycle(tf) ==
    /\ loop[tf] = "gather"
    /\ AllDone(tf)
    /\ loop' = [loop EXCEPT ![tf] = "sleep"]
    /\ \E e \in Elapsed(tf) :
          /\ elapsed' = [elapsed EXCEPT ![tf] = e]
          /\ nap' = [nap EXCEPT ![tf] = SleepTime(tf, e)]
    /\ UNCHANGED <<main, dir_calls, CONCURRENCY, symbols, creds, cycle, tasks, sem, last_alerted, calls, outcome>>

\* The sleep is over; its argument and the elapsed time are dropped, and
\* `while True` runs the body again.
Wake(tf) ==
    /\ loop[tf] = "sleep"
    /\ loop' = [loop EXCEPT ![tf] = "start"]
    /\ elapsed' = [elapsed EXCEPT ![tf] = 0]
    /\ nap' = [nap EXCEPT ![tf] = 0]
    /\ UNCHANGED <<main, dir_calls, CONCURRENCY, symbols, creds, cycle, tasks, sem, last_alerted, calls, outcome>>

----------------------------------------------------------------------------
(* run_check, fetch_json *)

Acquire(tf, t) ==
    /\ t \in tasks[tf]
    /\ t.pc = "acquire"
    /\ CanAcquire(tf)
    /\ sem' = [sem EXCEPT ![tf] = @ - 1]
    /\ Upd(tf, t, [t EXCEPT !.pc = "get", !.i = 0, !.n = 1])
    /\ UNCHANGED <<main, dir_calls, elapsed, nap, CONCURRENCY, symbols, creds, loop, cycle, last_alerted, calls, outcome>>

GetFails(tf, t) ==
    /\ t \in tasks[tf]
    /\ t.pc = "get"
    /\ IF ExhaustedRetries(t.i)
         THEN Upd(tf, t, Returned(t, "absent"))
         ELSE Upd(tf, t, [t EXCEPT !.pc = "retry"])
    /\ UNCHANGED <<main, dir_calls, elapsed, nap, CONCURRENCY, symbols, creds, loop, cycle, sem, last_alerted, calls, outcome>>

RetryWake(tf, t) ==
    /\ t \in tasks[tf]
    /\ t.pc = "retry"
    /\ Upd(tf, t, [t EXCEPT !.pc = "get", !.i = @ + 1, !.n = @ + 1])
    /\ UNCHANGED <<main, dir_calls, elapsed, nap, CONCURRENCY, symbols, creds, loop, cycle, sem, last_alerted, calls, outcome>>

GetReturns(tf, t, rs) ==
    /\ t \in tasks[tf]
    /\ t.pc = "get"
    /\ \E r \in rs : Upd(tf, t, [t EXCEPT !.pc = "resume", !.resp = r])
    /\ UNCHANGED <<main, dir_calls, elapsed, nap, CONCURRENCY, symbols, creds, loop, cycle, sem, last_alerted, calls, outcome>>

----------------------------------------------------------------------------
(* get_last_candle, check_1m / check_5m, send_telegram *)

\* Mutant: the dedup entry is written whether or not the threshold was met.
NoSpike_marks(tf, t) ==
    /\ Upd(tf, t, Returned(t, "below"))
    /\ last_alerted' = [last_alerted EXCEPT ![tf] =
                            Put(@, t.sym, t.resp.c.open_time)]
    /\ UNCHANGED <<calls, outcome>>

\* The threshold is not met: the `if` body is skipped and the check returns.
NoSpike(tf, t) ==
    /\ Upd(tf, t, Returned(t, "below"))
    /\ UNCHANGED <<last_alerted, calls, outcome>>

check(tf, t) ==
    /\ t \in tasks[tf]
    /\ t.pc = "resume"
    /\ LET c == t.resp.c
           ot == c.open_time
           ch == percent_change(c.open, c.close)
       IN  CASE t.resp.kind = "malformed" ->
                  /\ Upd(tf, t, Returned(t, "error"))
                  /\ UNCHANGED <<last_alerted, calls, outcome>>
             [] t.resp.kind = "empty" ->
                  /\ Upd(tf, t, Returned(t, "nobars"))
                  /\ UNCHANGED <<last_alerted, calls, outcome>>
             [] OTHER ->
                  IF AlreadyAlerted(tf, t.sym, ot)
                    THEN /\ Upd(tf, t, Returned(t, "suppressed"))
                         /\ UNCHANGED <<last_alerted, calls, outcome>>
                    ELSE IF Breaches(tf, ch)
                      THEN /\ calls' = [calls EXCEPT ![<<tf, t.sym, ot>>] = @ + 1]
                           /\ IF creds
                                THEN /\ Upd(tf, t, [t EXCEPT !.pc = "post"])
                                     /\ UNCHANGED <<last_alerted, outcome>>
                                ELSE /\ Upd(tf, t, Returned(t, "sent"))
                                     /\ outcome' = Track(<<tf, t.sym, ot>>, "skipped")
                                     /\ last_alerted' =
                                          [last_alerted EXCEPT ![tf] =
                                              Put(@, t.sym, ot)]
                      ELSE NoSpike(tf, t)
    /\ UNCHANGED <<main, dir_calls, elapsed, nap, CONCURRENCY, symbols, creds, loop, cycle, sem>>

\* The POST is answered, with status 200 or with another one, which is
\* logged; send_telegram returns and the check records the candle.
PostReturns(tf, t) ==
    /\ t \in tasks[tf]
    /\ t.pc = "post"
    /\ Upd(tf, t, Returned(t, "sent"))
    /\ \E st \in {"delivered", "rejected"} :
          outcome' = Track(<<tf, t.sym, t.resp.c.open_time>>, st)
    /\ last_alerted' = [last_alerted EXCEPT ![tf] =
                            Put(@, t.sym, t.resp.c.open_time)]
    /\ UNCHANGED <<main, dir_calls, elapsed, nap, CONCURRENCY, symbols, creds,
                   loop, cycle, sem, calls>>

\* Mutant: the candle is recorded although send_telegram raised.
PostRaises_marks(tf, t) ==
    /\ t \in tasks[tf]
    /\ t.pc = "post"
    /\ Upd(tf, t, Returned(t, "error"))
    /\ outcome' = Track(<<tf, t.sym, t.resp.c.open_time>>, "raised")
    /\ last_alerted' = [last_alerted EXCEPT ![tf] =
                            Put(@, t.sym, t.resp.c.open_time)]
    /\ UNCHANGED <<main, dir_calls, elapsed, nap, CONCURRENCY, symbols, creds,
                   loop, cycle, sem, calls>>

\* session.post raises: the exception leaves send_telegram and is caught by
\* the except clause of the check, which logs it and returns.
PostRaises(tf, t) ==
    /\ t \in tasks[tf]
    /\ t.pc = "post"
    /\ Upd(tf, t, Returned(t, "error"))
    /\ outcome' = Track(<<tf, t.sym, t.resp.c.open_time>>, "raised")
    /\ UNCHANGED <<main, dir_calls, elapsed, nap, CONCURRENCY, symbols, creds,
                   loop, cycle, sem, last_alerted, calls>>

\* Mutant: the task ends without giving its permit back.
PaceDone_keeps(tf, t) ==
    /\ t \in tasks[tf]
    /\ t.pc = "pace"
    /\ Upd(tf, t, Finished(t))
    /\ UNCHANGED <<main, dir_calls, elapsed, nap, CONCURRENCY, symbols, creds,
                   loop, cycle, sem, last_alerted, calls, outcome>>

PaceDone(tf, t) ==
    /\ t \in tasks[tf]
    /\ t.pc = "pace"
    /\ sem' = [sem EXCEPT ![tf] = @ + 1]
    /\ Upd(tf, t, Finished(t))
    /\ UNCHANGED <<main, dir_calls, elapsed, nap, CONCURRENCY, symbols, creds, loop, cycle, last_alerted, calls, outcome>>

----------------------------------------------------------------------------
(* main, get_usdt_perpetual_symbols *)

\* The listings the exchange may answer with, after the TRADING / USDT
\* filter of get_usdt_perpetual_symbols: any part of the universe, none
\* of it included.
Listings(univ) == SUBSET univ

\* An attempt of the directory request fails.  fetch_json sleeps and tries
\* again, or, after the last attempt, returns None: data.get then raises
\* AttributeError, which nothing in main catches.
DirFails ==
    /\ main = "resolve"
    /\ IF ExhaustedRetries(dir_calls - 1)
         THEN main' = "AttributeError"
         ELSE main' = "retry"
    /\ UNCHANGED <<dir_calls, CONCURRENCY, symbols, creds, loop, cycle, tasks,
                   sem, last_alerted, calls, outcome, elapsed, nap>>

DirRetryWake ==
    /\ main = "retry"
    /\ main' = "resolve"
    /\ dir_calls' = dir_calls + 1
    /\ UNCHANGED <<CONCURRENCY, symbols, creds, loop, cycle, tasks, sem,
                   last_alerted, calls, outcome, elapsed, nap>>

\* The directory request is answered: main assigns symbols, logs, and calls
\* send_telegram, which returns at once if the credentials are missing and
\* awaits its POST otherwise.
DirReturns(univ) ==
    /\ main = "resolve"
    /\ symbols' \in Listings(univ)
    /\ main' = IF creds THEN "notify" ELSE "monitors"
    /\ UNCHANGED <<dir_calls, CONCURRENCY, creds, loop, cycle, tasks, sem,
                   last_alerted, calls, outcome, elapsed, nap>>

\* The POST of the startup message is answered, with status 200 or not.
NotifyReturns ==
    /\ main = "notify"
    /\ main' = "monitors"
    /\ UNCHANGED <<dir_calls, CONCURRENCY, symbols, creds, loop, cycle, tasks,
                   sem, last_alerted, calls, outcome, elapsed, nap>>

\* The POST of the startup message raises: send_telegram has no handler and
\* neither has main.
NotifyRaises ==
    /\ main = "notify"
    /\ main' = "ClientError"
    /\ UNCHANGED <<dir_calls, CONCURRENCY, symbols, creds, loop, cycle, tasks,
                   sem, last_alerted, calls, outcome, elapsed, nap>>

----------------------------------------------------------------------------
(* Specifications *)

\* The state in which main awaits the gather of the two monitors, after a
\* directory request that returned univ at the first attempt.
InitWith(univ, ots, cr, limits, followed) ==
    /\ main = "monitors"
    /\ dir_calls = 1
    /\ CONCURRENCY \in limits
    /\ symbols = univ
    /\ creds \in cr
    /\ loop = [tf \in Timeframes |-> "start"]
    /\ cycle = [tf \in Timeframes |-> 0]
    /\ tasks = [tf \in Timeframes |-> {}]
    /\ sem = [tf \in Timeframes |-> CONCURRENCY]
    /\ last_alerted = [tf \in Timeframes |-> <<>>]
    /\ calls = [k \in Timeframes \X univ \X ots |-> 0]
    /\ outcome = [k \in followed |-> "none"]
    /\ elapsed = [tf \in Timeframes |-> 0]
    /\ nap = [tf \in Timeframes |-> 0]

\* The steps of one monitor and its tasks, but for a raising POST.
LoopStep(tf, rs) ==
    \/ FinishCycle(tf)
    \/ Wake(tf)
    \/ \E t \in tasks[tf] : Acquire(tf, t)
    \/ \E t \in tasks[tf] : GetFails(tf, t)
    \/ \E t \in tasks[tf] : RetryWake(tf, t)
    \/ \E t \in tasks[tf] : GetReturns(tf, t, rs)
    \/ \E t \in tasks[tf] : check(tf, t)
    \/ \E t \in tasks[tf] : PostReturns(tf, t)
    \/ \E t \in tasks[tf] : PaceDone(tf, t)

Raise(tf) == \E t \in tasks[tf] : PostRaises(tf, t)

\* Spec: both monitors run concurrently, as main starts them, with one permit
\* per monitor and two symbols.
Init == InitWith(Universe, {1}, {TRUE}, {1}, {})

Next ==
    \E tf \in Timeframes :
        \/ StartCycle(tf, MaxCycles)
        \/ LoopStep(tf, FeedBoth)
        \/ Raise(tf)

Spec == Init /\ [][Next]_vars

\* The two monitors share no state (each has its own Semaphore, its own dict
\* and its own tasks list), so the behaviours in which one monitor runs and
\* the other has not been scheduled yet show every behaviour of one
\* timeframe.  The specifications below explore these, for each timeframe:
\* a monitor starts a cycle only if the other one has started none.
Solo(tf) == \A f \in Timeframes \ {tf} : cycle[f] = 0

\* SpecLoop: three symbols, one or two permits.
InitLoop == InitWith(UniverseLoop, {1}, BOOLEAN, {1, 2}, {})

NextLoop ==
    \E tf \in Timeframes :
        \/ Solo(tf) /\ StartCycle(tf, MaxCyclesLoop)
        \/ LoopStep(tf, FeedLoop)
        \/ Raise(tf)

SpecLoop == InitLoop /\ [][NextLoop]_vars

\* FairIso: two symbols, under the scheduling the program has: the event
\* loop runs a coroutine whenever one is ready, and every await of the
\* program ends (requests time out, sleeps are finite).
InitIso == InitWith(Universe, {1}, BOOLEAN, {1, 2}, {})

NextIso ==
    \E tf \in Timeframes :
        \/ Solo(tf) /\ StartCycle(tf, MaxCyclesIso)
        \/ LoopStep(tf, FeedLoop)
        \/ Raise(tf)

FairIso == InitIso /\ [][NextIso]_vars /\ WF_vars(NextIso)

\* SpecDedup: one symbol, more cycles and a richer exchange feed.
KeysDedup == Timeframes \X UniverseDedup \X (1..MaxOpenTimeDedup)

InitDedup == InitWith(UniverseDedup, 1..MaxOpenTimeDedup, BOOLEAN, {1}, KeysDedup)

NextDedup ==
    \E tf \in Timeframes :
        \/ Solo(tf) /\ StartCycle(tf, MaxCyclesDedup)
        \/ LoopStep(tf, FeedDedup)
        \/ Raise(tf)

SpecDedup == InitDedup /\ [][NextDedup]_vars

\* SpecReliable: SpecDedup with the credentials set and a notification
\* channel that always answers, so session.post never raises.
InitReliable ==
    InitWith(UniverseDedup, 1..MaxOpenTimeDedup, {TRUE}, {1}, KeysDedup)

NextReliable ==
    \E tf \in Timeframes :
        \/ Solo(tf) /\ StartCycle(tf, MaxCyclesDedup)
        \/ LoopStep(tf, FeedDedup)

SpecReliable == InitReliable /\ [][NextReliable]_vars

\* SpecZero: SpecDedup with a feed of candles whose open is 0.
NextZero ==
    \E tf \in Timeframes :
        \/ Solo(tf) /\ StartCycle(tf, MaxCyclesDedup)
        \/ LoopStep(tf, FeedZero)
        \/ Raise(tf)

SpecZero == InitDedup /\ [][NextZero]_vars

\* SpecMain: the program from the start of main, the directory request in
\* flight, with two symbols on the exchange.
InitMain ==
    /\ main = "resolve"
    /\ dir_calls = 1
    /\ CONCURRENCY = 1
    /\ symbols = {}
    /\ creds \in BOOLEAN
    /\ loop = [tf \in Timeframes |-> "start"]
    /\ cycle = [tf \in Timeframes |-> 0]
    /\ tasks = [tf \in Timeframes |-> {}]
    /\ sem = [tf \in Timeframes |-> CONCURRENCY]
    /\ last_alerted = [tf \in Timeframes |-> <<>>]
    /\ calls = [k \in Timeframes \X Universe \X {1} |-> 0]
    /\ outcome = <<>>
    /\ elapsed = [tf \in Timeframes |-> 0]
    /\ nap = [tf \in Timeframes |-> 0]

NextMain ==
    \/ DirFails
    \/ DirRetryWake
    \/ DirReturns(Universe)
    \/ NotifyReturns
    \/ NotifyRaises
    \/ \E tf \in Timeframes :
          \/ Solo(tf) /\ StartCycle(tf, MaxCyclesMain)
          \/ LoopStep(tf, FeedBoth)
          \/ Raise(tf)

SpecMain == InitMain /\ [][NextMain]_vars

----------------------------------------------------------------------------
(* Vocabulary of the properties *)

Results == {"absent", "nobars", "error", "suppressed", "below", "sent"}

Key(tf, t) == <<tf, t.sym, t.resp.c.open_time>>

\* Task t takes a step: its record is replaced.
Stepped(tf, t) == t \in tasks[tf] /\ t \notin tasks'[tf]

\* The check of task t evaluates a fetched candle in this step.
Evaluates(tf, t) ==
    /\ t.pc = "resume"
    /\ t.resp.kind = "bars"
    /\ Stepped(tf, t)

\* The check of task t returns in this step, with result r.
CheckReturns(tf, t, r) == Stepped(tf, t) /\ Returned(t, r) \in tasks'[tf]

\* abs((close - open) / open * 100) >= threshold, in exact arithmetic.
MeetsThreshold(tf, c) ==
    /\ c.open # 0
    /\ Abs(c.close - c.open) * 10000 >= Threshold(tf) * Abs(c.open)

AtThreshold(tf, c) ==
    /\ c.open # 0
    /\ Abs(c.close - c.open) * 10000 = Threshold(tf) * Abs(c.open)

----------------------------------------------------------------------------
(* C1. Dedup invariant: send_telegram is invoked at most once for each     *)
(* (timeframe, instrument, open_time), whatever candles the exchange       *)
(* returns.  Stated as the claim states it; the code violates it.          *)

DedupAtMostOnce == \A k \in DOMAIN calls : calls[k] <= 1

(* C2. No re-arm within the same candle: a check that finds the dedup      *)
(* entry of its (timeframe, instrument) equal to the open_time of the      *)
(* candle it fetched returns without calling send_telegram and without     *)
(* changing the dedup dict, whatever the change of the candle.             *)

NoRearmSameCandle ==
    [][\A tf \in Timeframes : \A t \in tasks[tf] :
          (/\ Evaluates(tf, t)
           /\ Get(last_alerted[tf], t.sym) = <<t.resp.c.open_time>>)
            => /\ CheckReturns(tf, t, "suppressed")
               /\ calls' = calls
               /\ last_alerted' = last_alerted]_vars

\* A check was suppressed for a candle that was alerted exactly once.
NoRearmWitness ==
    \E tf \in Timeframes : \E t \in tasks[tf] :
        /\ t.res = "suppressed"
        /\ t.cyc > 1
        /\ t.sym \in DOMAIN last_alerted[tf]
        /\ calls[<<tf, t.sym, last_alerted[tf][t.sym]>>] = 1

(* C3. Re-arm on new candle: after an alert at T1, a check that fetches a  *)
(* candle with open_time T2 # T1 meeting the threshold calls send_telegram *)
(* and, when it returns, the dedup entry is T2.  Stated as the claim       *)
(* states it; the code violates it when send_telegram raises.              *)

RearmOnNewCandle ==
    [][\A tf \in Timeframes : \A t \in tasks[tf] :
          (/\ t.resp.kind = "bars"
           /\ t.sym \in DOMAIN last_alerted[tf]
           /\ last_alerted[tf][t.sym] # t.resp.c.open_time
           /\ MeetsThreshold(tf, t.resp.c))
            => /\ Evaluates(tf, t) => calls'[Key(tf, t)] = calls[Key(tf, t)] + 1
               /\ (\E r \in Results : CheckReturns(tf, t, r))
                    => Get(last_alerted'[tf], t.sym) = <<t.resp.c.open_time>>]_vars

(* C4. Threshold boundary: a check whose candle's open_time differs from   *)
(* the dedup entry calls send_telegram exactly when the absolute change is *)
(* at least the threshold of its timeframe, a change equal to the          *)
(* threshold included; otherwise no call is made.                          *)

QuietCheckKeepsDedup ==
    [][\A tf \in Timeframes : \A t \in tasks[tf] :
          /\ (/\ Evaluates(tf, t)
               /\ Get(last_alerted[tf], t.sym) # <<t.resp.c.open_time>>
               /\ ~ MeetsThreshold(tf, t.resp.c))
                => last_alerted' = last_alerted /\ calls' = calls
          /\ (/\ Stepped(tf, t)
               /\ \/ t.pc = "resume" /\ t.resp.kind = "empty"
                  \/ t.pc = "get" /\ CheckReturns(tf, t, "absent"))
                => last_alerted' = last_alerted /\ calls' = calls
          /\ (/\ Evaluates(tf, t)
               /\ Get(last_alerted[tf], t.sym) # <<t.resp.c.open_time>>
               /\ MeetsThreshold(tf, t.resp.c))
                => calls' = [calls EXCEPT ![Key(tf, t)] = @ + 1]]_vars

\* Second cycle of a pair whose first check sent nothing and left the dict
\* empty: the candle now meets the threshold and send_telegram has been
\* called once for it.
QuietCheckWitness ==
    \E tf \in Timeframes : \E t \in tasks[tf] :
        /\ t.cyc = 2
        /\ t.pc = "post"
        /\ last_alerted[tf] = <<>>
        /\ \A k \in DOMAIN calls :
              calls[k] = IF k = Key(tf, t) THEN 1 ELSE 0

(* C6. Isolation: when the fetch or the check of one instrument has failed *)
(* in a cycle, every other instrument of that cycle still runs to the end  *)
(* of its unit of work, a candle of another instrument that meets the      *)
(* threshold is still dispatched, the cycle ends and the monitor goes on   *)
(* to its next cycle.                                                      *)

FailedIn(tf, k) ==
    \E t \in tasks[tf] : t.cyc = k /\ t.res \in {"absent", "error"}

CycleComplete(tf, k) ==
    /\ cycle[tf] = k
    /\ loop[tf] = "sleep"
    /\ \A s \in symbols :
          \E u \in tasks[tf] : u.sym = s /\ u.cyc = k /\ u.pc = "done"

Isolation ==
    /\ \A tf \in Timeframes : \A k \in 1..MaxCyclesIso :
          /\ (cycle[tf] = k /\ FailedIn(tf, k)) ~> CycleComplete(tf, k)
          /\ (k < MaxCyclesIso /\ cycle[tf] = k /\ FailedIn(tf, k))
                ~> (cycle[tf] = k + 1)
    /\ [][\A tf \in Timeframes : \A t \in tasks[tf] :
            (/\ Evaluates(tf, t)
             /\ FailedIn(tf, t.cyc)
             /\ Get(last_alerted[tf], t.sym) # <<t.resp.c.open_time>>
             /\ MeetsThreshold(tf, t.resp.c))
              => calls' = [calls EXCEPT ![Key(tf, t)] = @ + 1]]_vars

\* One instrument's check has failed and, in the same cycle, the candle of
\* another instrument has been dispatched.
IsolationWitness ==
    \E tf \in Timeframes : \E t, u \in tasks[tf] :
        /\ t.res \in {"absent", "error"}
        /\ u.cyc = t.cyc
        /\ u.sym # t.sym
        /\ u.res = "sent"

(* C7. Bounded retry: a fetch makes at most Retries + 1 network attempts;  *)
(* an attempt that succeeds ends the fetch, a failed attempt is retried    *)
(* only while fewer than Retries + 1 attempts were made, and when the last *)
(* one fails the check returns with "absent" (no exception, no alert).     *)

Holders(tf) == { t \in tasks[tf] : HoldsPermit(t) }

Successor(tf, t) == { u \in tasks'[tf] : u.sym = t.sym /\ u.cyc = t.cyc }

BoundedRetry ==
    [][\A tf \in Timeframes : \A t \in tasks[tf] :
          /\ t.n <= Retries + 1
          /\ (t.pc = "get" /\ Stepped(tf, t))
                => \/ \E u \in Successor(tf, t) : u.pc = "resume" /\ u.n = t.n
                   \/ /\ t.n <= Retries
                      /\ \E u \in Successor(tf, t) : u.pc = "retry" /\ u.n = t.n
                   \/ /\ t.n = Retries + 1
                      /\ CheckReturns(tf, t, "absent")
                      /\ calls' = calls /\ last_alerted' = last_alerted
          /\ (t.pc = "retry" /\ Stepped(tf, t))
                => \E u \in Successor(tf, t) : u.pc = "get" /\ u.n = t.n + 1
          /\ (t.pc \in {"resume", "post"} /\ Stepped(tf, t))
                => \A u \in Successor(tf, t) : u.pc \notin {"get", "retry"}]_vars

\* Every attempt of a fetch has failed and its check has returned "absent".
BoundedRetryWitness ==
    \E tf \in Timeframes : \E t \in tasks[tf] :
        t.pc = "pace" /\ t.res = "absent"

(* C8. Per-loop concurrency bound: the tasks of one monitor that hold a    *)
(* permit of its semaphore are never more than CONCURRENCY.                *)

PermitBound ==
    \A tf \in Timeframes : Cardinality(Holders(tf)) <= CONCURRENCY

\* Every permit of a monitor is held while another of its tasks waits.
PermitBoundWitness ==
    \E tf \in Timeframes :
        /\ CONCURRENCY = 2
        /\ Cardinality(Holders(tf)) = CONCURRENCY
        /\ \E t \in tasks[tf] : t.pc = "acquire"

(* C9. Shared concurrency bound, as claimed: the tasks holding a permit,   *)
(* counted over both monitors, are never more than CONCURRENCY.  The code  *)
(* gives each monitor its own Semaphore and violates this.                 *)

HoldersOverall == UNION { {<<tf, t>> : t \in Holders(tf)} : tf \in Timeframes }

SharedPermitBound == Cardinality(HoldersOverall) <= CONCURRENCY

(* C9, amended: each monitor has its own bound, so the tasks holding a     *)
(* permit, counted over both monitors, are never more than CONCURRENCY     *)
(* times the number of monitors.                                           *)

SeparatePermitBound ==
    Cardinality(HoldersOverall) <= Cardinality(Timeframes) * CONCURRENCY

\* Both monitors have all their permits out at the same time.
SeparatePermitWitness ==
    /\ Cardinality(HoldersOverall) = Cardinality(Timeframes) * CONCURRENCY
    /\ \A tf \in Timeframes : \E t \in tasks[tf] : t.pc = "acquire"

(* C10. Cycles of one timeframe never overlap: every unfinished task       *)
(* belongs to the current cycle of its monitor, a monitor that is not in   *)
(* gather has no unfinished task, and no two unfinished tasks check the    *)
(* same (timeframe, instrument).                                           *)

CyclesDoNotOverlap ==
    \A tf \in Timeframes :
        /\ \A t \in tasks[tf] : t.pc # "done" => t.cyc = cycle[tf]
        /\ loop[tf] # "gather" => \A t \in tasks[tf] : t.pc = "done"
        /\ \A t, u \in tasks[tf] :
              (t.sym = u.sym /\ t.pc # "done" /\ u.pc # "done") => t = u

\* A later cycle is evaluating a candle of a pair that an earlier cycle
\* alerted.
CyclesWitness ==
    \E tf \in Timeframes : \E t \in tasks[tf] :
        /\ t.cyc = 2
        /\ t.pc = "resume"
        /\ t.sym \in DOMAIN last_alerted[tf]

(* C11. Cycle pacing: while a monitor sleeps after a cycle, the sleep is at *)
(* least 1 second whatever time the cycle took, it is the interval less    *)
(* the elapsed time when that is above 1, and 1 when the cycle took the    *)
(* interval or longer; the sleep ends in the start of exactly one cycle:   *)
(* the cycle count moves only from the loop head, by one, with one new     *)
(* task per symbol.                                                        *)

CyclePacing ==
    /\ [](\A tf \in Timeframes :
            loop[tf] = "sleep"
              => /\ nap[tf] >= 1
                 /\ Interval(tf) - elapsed[tf] > 1
                       => nap[tf] = Interval(tf) - elapsed[tf]
                 /\ elapsed[tf] >= Interval(tf) => nap[tf] = 1)
    /\ [][\A tf \in Timeframes :
            /\ (loop[tf] = "sleep" /\ loop'[tf] # "sleep")
                  => /\ loop'[tf] = "start"
                     /\ cycle'[tf] = cycle[tf]
                     /\ tasks'[tf] = tasks[tf]
            /\ cycle'[tf] # cycle[tf]
                  => /\ loop[tf] = "start"
                     /\ loop'[tf] = "gather"
                     /\ cycle'[tf] = cycle[tf] + 1
                     /\ { t \in tasks'[tf] : t.pc # "done" }
                          = { NewTask(s, cycle'[tf]) : s \in symbols }]_vars

\* The second cycle of a monitor took longer than the interval and the
\* monitor sleeps for one second.
CyclePacingWitness ==
    \E tf \in Timeframes :
        /\ loop[tf] = "sleep"
        /\ cycle[tf] = 2
        /\ elapsed[tf] > Interval(tf)
        /\ nap[tf] = 1

(* C12. Dispatch is best-effort, as claimed: whatever the notification     *)
(* channel does, send_telegram returns normally to its caller, in a check  *)
(* and in main alike, so that no exception of a dispatch ever leaves main. *)
(* The code violates this: send_telegram has no handler around its POST.   *)

DispatchBestEffort ==
    /\ [](main # "ClientError")
    /\ [][\A tf \in Timeframes : \A t \in tasks[tf] :
            (t.pc = "post" /\ Stepped(tf, t))
              => CheckReturns(tf, t, "sent")]_vars

(* C13. Empty universe aborts startup, as claimed: when the directory      *)
(* lists no eligible symbol, main never awaits the monitors and no monitor *)
(* starts a cycle.  The code violates this: main never looks at the list.  *)

EmptyUniverseAborts ==
    (main \notin {"resolve", "retry"} /\ symbols = {})
      => /\ main # "monitors"
         /\ \A tf \in Timeframes : cycle[tf] = 0

(* C14. Directory resolution is not retried, as claimed: the directory     *)
(* request is made exactly once, and when it fails an exception leaves     *)
(* main at once.  The code violates this: the request goes through         *)
(* fetch_json, which makes up to Retries + 1 attempts.                     *)

DirectoryCalledOnce ==
    /\ [](dir_calls = 1)
    /\ [][main = "resolve" /\ main' # "resolve"
            => main' \in {"AttributeError", "notify", "monitors"}]_vars

(* C15. Zero-open guard: for a candle whose open is 0 the computed change  *)
(* is 0 whatever its close, and a check that evaluates such a candle calls *)
(* nothing and leaves the dedup dicts as they are.                         *)

ZeroOpenGuard ==
    /\ [](\A tf \in Timeframes : \A t \in tasks[tf] :
            (t.pc = "resume" /\ t.resp.kind = "bars" /\ t.resp.c.open = 0)
              => percent_change(t.resp.c.open, t.resp.c.close) = 0)
    /\ [][\A tf \in Timeframes : \A t \in tasks[tf] :
            (Evaluates(tf, t) /\ t.resp.c.open = 0)
              => /\ calls' = calls
                 /\ last_alerted' = last_alerted
                 /\ \/ CheckReturns(tf, t, "below")
                    \/ CheckReturns(tf, t, "suppressed")]_vars

\* A check has found its candle below the threshold, which in the feed of
\* SpecZero only a candle with open 0 is, in a cycle after the first, and
\* nothing was ever called or recorded.
ZeroOpenWitness ==
    \E tf \in Timeframes : \E t \in tasks[tf] :
        /\ t.res = "below"
        /\ t.cyc > 1
        /\ last_alerted[tf] = <<>>
        /\ \A k \in DOMAIN calls : calls[k] = 0

(* C16. Loop liveness: under fair scheduling, and whatever fetches and     *)
(* posts fail, a monitor that has started its cycle k reaches the sleep    *)
(* after cycle k with the task of every symbol finished, and a monitor     *)
(* that sleeps after cycle k starts cycle k + 1 (for every k the           *)
(* exploration reaches).                                                   *)

LoopLiveness ==
    \A tf \in Timeframes : \A k \in 1..MaxCyclesIso :
        /\ (cycle[tf] = k /\ loop[tf] = "gather")
              ~> (/\ cycle[tf] = k
                  /\ loop[tf] = "sleep"
                  /\ \A s \in symbols : \E t \in tasks[tf] :
                        t.sym = s /\ t.cyc = k /\ t.pc = "done")
        /\ (k < MaxCyclesIso /\ cycle[tf] = k /\ loop[tf] = "sleep")
              ~> (cycle[tf] = k + 1 /\ loop[tf] = "gather")

\* With one permit for two symbols, a monitor has started a cycle after its
\* first while one task holds the permit and the other waits for it.
LoopLivenessWitness ==
    \E tf \in Timeframes :
        /\ CONCURRENCY = 1
        /\ cycle[tf] > 1
        /\ loop[tf] = "gather"
        /\ \E t, u \in tasks[tf] : t.pc = "acquire" /\ HoldsPermit(u)

(* C17. Permit ordering, as claimed: a task holds a permit from its        *)
(* acquisition to the return of its check and no longer, so the free       *)
(* permits of a monitor are CONCURRENCY less the tasks between acquisition *)
(* and the return of the check, and a task in its pacing sleep holds none. *)
(* The code violates this: the sleep is inside `async with sem`.           *)

InCheck(tf) ==
    { t \in tasks[tf] : t.pc \in {"get", "retry", "resume", "post"} }

PauseAfterRelease ==
    \A tf \in Timeframes : sem[tf] = CONCURRENCY - Cardinality(InCheck(tf))

(* C17, amended: a task takes its permit, when one is free, before its     *)
(* first request; the permit is given back in the step that ends the       *)
(* pacing sleep, which is also the only step that finishes a task; no      *)
(* other step of a task changes the free permits.                          *)

PauseBeforeRelease ==
    [][\A tf \in Timeframes : \A t \in tasks[tf] :
          (Stepped(tf, t) /\ t.pc # "done")
            => \E u \in Successor(tf, t) :
                 CASE t.pc = "acquire" ->
                        /\ sem[tf] > 0
                        /\ sem'[tf] = sem[tf] - 1
                        /\ u.pc = "get" /\ u.n = 1
                   [] t.pc = "pace" ->
                        /\ sem'[tf] = sem[tf] + 1
                        /\ u.pc = "done"
                   [] OTHER ->
                        /\ sem'[tf] = sem[tf]
                        /\ u.pc \in {"get", "retry", "resume", "post", "pace"}]_vars

\* A task is in its pacing sleep, no permit is free and another task waits
\* for one.
PauseHoldsPermitWitness ==
    \E tf \in Timeframes :
        /\ sem[tf] = 0
        /\ InCheck(tf) = {}
        /\ \E t, u \in tasks[tf] : t.pc = "pace" /\ u.pc = "acquire"

(* C18. The dedup entry is written only in the step in which a check      *)
(* returns after send_telegram has returned.  When send_telegram raises,   *)
(* the check contains it: the task goes on to its pacing sleep, the        *)
(* monitor is not disturbed and the dedup dicts are unchanged; and a later *)
(* check that fetches the same open_time, the threshold met, calls         *)
(* send_telegram again for the same (timeframe, symbol, open_time).        *)

RaiseKeepsDedup ==
    /\ [][\A tf \in Timeframes : \A t \in tasks[tf] :
            /\ (/\ t.pc = "post"
                 /\ Stepped(tf, t)
                 /\ outcome'[Key(tf, t)] = "raised")
                  => /\ CheckReturns(tf, t, "error")
                     /\ last_alerted' = last_alerted
                     /\ loop' = loop
            /\ (/\ Evaluates(tf, t)
                 /\ outcome[Key(tf, t)] = "raised"
                 /\ MeetsThreshold(tf, t.resp.c))
                  => calls' = [calls EXCEPT ![Key(tf, t)] = @ + 1]]_vars
    /\ [][last_alerted' # last_alerted
            => \E tf \in Timeframes : \E t \in tasks[tf] :
                 /\ t.pc \in {"resume", "post"}
                 /\ CheckReturns(tf, t, "sent")
                 /\ last_alerted' =
                      [last_alerted EXCEPT ![tf] =
                          Put(@, t.sym, t.resp.c.open_time)]]_vars

\* send_telegram raised for a candle, nothing was recorded, and a later
\* check has called it again for the same candle.
RaiseKeepsDedupWitness ==
    \E tf \in Timeframes : \E t \in tasks[tf] :
        /\ t.pc = "post"
        /\ outcome[Key(tf, t)] = "raised"
        /\ calls[Key(tf, t)] = 2
        /\ last_alerted[tf] = <<>>

(* C19. An undelivered alert is never sent again, as claimed: a check that *)
(* returns after send_telegram has returned leaves the candle recorded,    *)
(* delivered or not, and once send_telegram has returned for a (timeframe, *)
(* symbol, open_time) no later check of that candle calls it.  The code    *)
(* violates the second part when an earlier open_time comes back.          *)

UndeliveredNeverResent ==
    [][\A tf \in Timeframes : \A t \in tasks[tf] :
          /\ (t.pc \in {"resume", "post"} /\ CheckReturns(tf, t, "sent"))
                => Get(last_alerted'[tf], t.sym) = <<t.resp.c.open_time>>
          /\ (/\ Evaluates(tf, t)
               /\ outcome[Key(tf, t)] \in {"delivered", "rejected", "skipped"})
                => calls' = calls]_vars

(* C20. Permits are conserved: the free permits of a monitor are always    *)
(* between 0 and CONCURRENCY, together with the permits held by its tasks  *)
(* they are always CONCURRENCY (none is lost and none is given back twice, *)
(* also by a task whose check ended in an exception), and all of them are  *)
(* free whenever the monitor is not in its fan-in.                         *)

PermitsConserved ==
    \A tf \in Timeframes :
        /\ sem[tf] \in 0..CONCURRENCY
        /\ sem[tf] + Cardinality(Holders(tf)) = CONCURRENCY
        /\ loop[tf] \in {"sleep", "start"} => sem[tf] = CONCURRENCY

\* The last task of a cycle is in its pacing sleep after a check that ended
\* in an exception or without data; the others have given their permits
\* back.
PermitsConservedWitness ==
    \E tf \in Timeframes : \E t \in tasks[tf] :
        /\ CONCURRENCY = 2
        /\ t.res \in {"error", "absent"}
        /\ sem[tf] = CONCURRENCY - 1
        /\ \A u \in tasks[tf] \ {t} : u.pc = "done" /\ u.cyc = t.cyc

====
